---- MODULE Spec2Model ----
(***************************************************************************)
(* go-transit-dashboard: the memoised fetch (st.cache_data, ttl = 60) and  *)
(* the auto-refresh block of the home page (src/app.py), as one session    *)
(* executing render passes top to bottom.                                  *)
(***************************************************************************)
EXTENDS Integers, FiniteSets, Sequences, TLC

\* ---------------------------------------------------------------- constants
\* @st.cache_data(ttl=60)
TTL == 60
\* time.time() - st.session_state.last_refresh > 60
RefreshInterval == 60
\* requests.get(url, timeout=10)
FetchTimeout == 10

\* ------------------------------------------------------------------- bounds
\* The clock stops advancing here.
MaxTime == 150
\* Render passes the user starts (reruns come on top).
MaxPasses == 3

\* Amounts of time that pass between two render passes.
TimeSteps == {50, 60, 70}
\* Network calls that fail (exception or timeout) in one run.
MaxFailures == 2

\* The three URLs the home page fetches.
Keys == {"stats", "timeseries", "vehicles"}
\* fetch_data's result after an exception.
None == 0 - 1
\* The decoded body the API serves at time t: the data as of t, so that a
\* value can be told from one fetched at another time.
Body(t) == t
\* Outcome of requests.get(url, timeout=10) ... raise_for_status() ... json():
\* a decoded body, an exception raised at once, or the timeout's exception.
NetOutcomes == {"ok", "raise", "timeout"}

Never == 0 - 1

VARIABLES
    now,               \* time.time()
    cache,             \* st.cache_data's store for fetch_data: url -> entry
    last_refresh_set,  \* 'last_refresh' in st.session_state
    last_refresh,      \* st.session_state.last_refresh
    auto_refresh,      \* value of the "Auto-refresh (60s)" checkbox
    button,            \* "Refresh Now" reports a click in this pass
    pc,                \* position of the session in the script
    passes,            \* render passes the user has started
    failures,          \* network calls that have failed
    hist,              \* history, per url, of the calls made so far
    fireAt,            \* time of the latest periodic refresh
    before,            \* the cache before the latest step
    inflight,          \* network requests sent and not yet answered, per url
    last               \* what the latest step did

vars == <<now, cache, last_refresh_set, last_refresh, auto_refresh, button,
          pc, passes, failures, hist, fireAt, before, inflight, last>>

\* ------------------------------------------------------------------- cache
NoEntry == [has |-> FALSE, val |-> None, at |-> 0]

\* A cache that serves nothing (the decorator left out).
FreshNever(e, t) == FALSE

\* An entry kept for the request timeout instead of the ttl.
FreshForTimeout(e, t) == e.has /\ t - e.at < FetchTimeout

\* An entry still served at the age of exactly the ttl.
FreshInclusive(e, t) == e.has /\ t - e.at <= TTL

\* Entries that never expire (the ttl left out of the decorator).
FreshForever(e, t) == e.has

\* st.cache_data(ttl=60): an entry is served while its age is below the ttl.
Fresh(e, t) == e.has /\ t - e.at < TTL

\* A clear that drops only the entries that have expired.
ClearExpired(c) == [k \in Keys |-> IF Fresh(c[k], now) THEN c[k] ELSE NoEntry]

\* @st.cache_data(ttl=3600) of generate_historical_data (Analytics page)
HistoricalTTL == 3600

\* A clear that drops the entries of fetch_data and keeps the others.
ClearFetchData(c) ==
    [k \in DOMAIN c |-> IF k = "analytics.historical" THEN c[k] ELSE NoEntry]

\* st.cache_data.clear(): every entry of every cached function is dropped.
ClearCache(c) == [k \in DOMAIN c |-> NoEntry]

\* The body of fetch_data: the value returned for a network outcome, None
\* after any exception.
FetchBody(o, body) == IF o = "ok" THEN body ELSE None

\* A handler for timeouts alone.
CaughtTimeoutOnly(o) == o = "timeout"

\* except Exception as e: every exception the try block raises is caught.
Caught(o) == TRUE

\* Time the network call takes.
Duration(o) == IF o = "timeout" THEN FetchTimeout ELSE 0

\* Python truthiness of a value fetch_data returned.
Truthy(v) == v # None

NoHist == [okAt |-> Never, okVal |-> None, clearedSinceOk |-> FALSE,
           netAt |-> Never, clearedSinceNet |-> FALSE,
           manualPending |-> FALSE, lastFailed |-> FALSE]

NoteClear(h, manual) ==
    [k \in Keys |-> [h[k] EXCEPT !.clearedSinceOk = TRUE,
                                 !.clearedSinceNet = TRUE,
                                 !.manualPending = @ \/ manual]]

Init ==
    /\ now = 0
    /\ cache = [k \in Keys |-> NoEntry]
    /\ last_refresh_set = FALSE
    /\ last_refresh = 0
    /\ auto_refresh = TRUE
    /\ button = FALSE
    /\ pc = "sidebar"
    /\ passes = 0
    /\ failures = 0
    /\ hist = [k \in Keys |-> NoHist]
    /\ fireAt = Never
    /\ before = [k \in Keys |-> NoEntry]
    /\ inflight = [k \in Keys |-> 0]
    /\ last = [op |-> "init"]

\* ------------------------------------------------------------- fetch_data
\* One call fetch_data(url).  A fresh entry is returned without a network
\* call; otherwise the body runs, and whatever it returns (None after an
\* exception included) is stored under the url with the time of the store.
\* An exception that escaped the body would store nothing and end the script.
FetchData(k, o) ==
    LET e   == cache[k]
        hit == Fresh(e, now)
        t   == IF hit THEN now ELSE now + Duration(o)
        ret == IF hit THEN e.val ELSE FetchBody(o, Body(t))
        bad == ~hit /\ o # "ok"
        esc == bad /\ ~Caught(o)
        h   == hist[k]
    IN  /\ t <= MaxTime
        /\ bad => failures < MaxFailures
        /\ failures' = IF bad THEN failures + 1 ELSE failures
        /\ now' = t
        /\ cache' = IF hit \/ esc THEN cache
                    ELSE [cache EXCEPT ![k] = [has |-> TRUE, val |-> ret, at |-> t]]
        /\ before' = cache
        /\ hist' = [hist EXCEPT ![k] =
                      IF hit THEN [h EXCEPT !.manualPending = FALSE,
                                            !.lastFailed = FALSE]
                      ELSE IF bad
                      THEN [h EXCEPT !.netAt = t, !.clearedSinceNet = FALSE,
                                     !.manualPending = FALSE, !.lastFailed = TRUE]
                      ELSE [h EXCEPT !.okAt = t, !.okVal = ret,
                                     !.clearedSinceOk = FALSE,
                                     !.netAt = t, !.clearedSinceNet = FALSE,
                                     !.manualPending = FALSE, !.lastFailed = FALSE]]
        /\ last' = [op |-> "fetch", key |-> k, start |-> now, at |-> t,
                    calls |-> IF hit THEN 0 ELSE 1,
                    ok |-> ~hit /\ ~bad, ret |-> ret, raised |-> esc,
                    prev |-> h]

\* ------------------------------------------------------------ the script
\* A user event while the script is not running starts a render pass; the
\* event may be a change of the checkbox.
UserInteracts ==
    /\ pc = "idle"
    /\ passes < MaxPasses
    /\ passes' = passes + 1
    /\ \E b \in BOOLEAN : auto_refresh' = b
    /\ button' = FALSE
    /\ pc' = "sidebar"
    /\ before' = cache
    /\ last' = [op |-> "event"]
    /\ UNCHANGED <<inflight, now, cache, last_refresh_set, last_refresh, failures, hist, fireAt>>

\* A click on "Refresh Now" starts a render pass in which the button is true.
UserClicksRefresh ==
    /\ pc = "idle"
    /\ passes < MaxPasses
    /\ passes' = passes + 1
    /\ button' = TRUE
    /\ pc' = "sidebar"
    /\ before' = cache
    /\ last' = [op |-> "event"]
    /\ UNCHANGED <<inflight, now, cache, last_refresh_set, last_refresh, auto_refresh,
                   failures, hist, fireAt>>

\* Time passes while the script is not running.
Advance ==
    /\ pc = "idle"
    /\ \E d \in TimeSteps : now + d <= MaxTime /\ now' = now + d
    /\ before' = cache
    /\ last' = [op |-> "advance"]
    /\ UNCHANGED <<inflight, cache, last_refresh_set, last_refresh, auto_refresh, button,
                   pc, passes, failures, hist, fireAt>>

\* A manual refresh that restarts the auto-refresh timer as well.
RefreshNowResetting ==
    /\ pc = "sidebar"
    /\ button
    /\ cache' = ClearCache(cache)
    /\ before' = cache
    /\ hist' = NoteClear(hist, TRUE)
    /\ last_refresh_set' = TRUE
    /\ last_refresh' = now
    /\ button' = FALSE
    /\ pc' = "sidebar"
    /\ last' = [op |-> "manual", at |-> now,
                prevSet |-> last_refresh_set, prevLast |-> last_refresh]
    /\ UNCHANGED <<inflight, now, auto_refresh, passes, failures, fireAt>>

\* if st.button("Refresh Now"): st.cache_data.clear(); st.rerun()
RefreshNow ==
    /\ pc = "sidebar"
    /\ button
    /\ cache' = ClearCache(cache)
    /\ before' = cache
    /\ hist' = NoteClear(hist, TRUE)
    /\ button' = FALSE
    /\ pc' = "sidebar"
    /\ last' = [op |-> "manual", at |-> now,
                prevSet |-> last_refresh_set, prevLast |-> last_refresh]
    /\ UNCHANGED <<inflight, now, last_refresh_set, last_refresh, auto_refresh, passes,
                   failures, fireAt>>

\* A script whose button sits below the fetches: the pass goes on with the
\* click not yet handled.
SidebarBeforeButton ==
    /\ pc = "sidebar"
    /\ pc' = "stats1"
    /\ before' = cache
    /\ last' = [op |-> "sidebar"]
    /\ UNCHANGED <<inflight, now, cache, last_refresh_set, last_refresh, auto_refresh,
                   button, passes, failures, hist, fireAt>>

\* The sidebar without a click: the script goes on to the page.
Sidebar ==
    /\ pc = "sidebar"
    /\ ~button
    /\ pc' = "stats1"
    /\ before' = cache
    /\ last' = [op |-> "sidebar"]
    /\ UNCHANGED <<inflight, now, cache, last_refresh_set, last_refresh, auto_refresh, button,
                   passes, failures, hist, fireAt>>

\* go_stats = fetch_data(f"{GO_API}?type=stats")           (Network Overview)
FetchStats1 ==
    /\ pc = "stats1"
    /\ \E o \in NetOutcomes : FetchData("stats", o)
    /\ pc' = IF last'.raised THEN "idle" ELSE "stats2"
    /\ UNCHANGED <<inflight, last_refresh_set, last_refresh, auto_refresh, button, passes, fireAt>>

\* go_stats = fetch_data(f"{GO_API}?type=stats"); if go_stats: ...   (Live Status)
\* The timeseries fetch lies inside the if.
FetchStats2 ==
    /\ pc = "stats2"
    /\ \E o \in NetOutcomes : FetchData("stats", o)
    /\ pc' = IF last'.raised THEN "idle"
             ELSE IF Truthy(last'.ret) THEN "timeseries" ELSE "vehicles"
    /\ UNCHANGED <<inflight, last_refresh_set, last_refresh, auto_refresh, button, passes, fireAt>>

\* go_timeseries = fetch_data(f"{GO_API}?type=timeseries")
FetchTimeseries ==
    /\ pc = "timeseries"
    /\ \E o \in NetOutcomes : FetchData("timeseries", o)
    /\ pc' = IF last'.raised THEN "idle" ELSE "vehicles"
    /\ UNCHANGED <<inflight, last_refresh_set, last_refresh, auto_refresh, button, passes, fireAt>>

\* go_vehicles = fetch_data(f"{GO_API}?type=vehicles")
FetchVehicles ==
    /\ pc = "vehicles"
    /\ \E o \in NetOutcomes : FetchData("vehicles", o)
    /\ pc' = IF last'.raised THEN "idle" ELSE "tick"
    /\ UNCHANGED <<inflight, last_refresh_set, last_refresh, auto_refresh, button, passes, fireAt>>

\* A comparison that also fires at exactly the interval.
DueInclusive(t, lr) == t - lr >= RefreshInterval

\* time.time() - st.session_state.last_refresh > 60
Due(t, lr) == t - lr > RefreshInterval

\* A refresh that moves the stored time on by one interval.
AdvanceByInterval(fired, lr, t) == IF fired THEN lr + RefreshInterval ELSE lr

\* A block that stores the current time at every check.
ResetEveryCheck(fired, lr, t) == t

\* A refresh that forgets to store the time it happened.
KeepLastRefresh(fired, lr, t) == lr

\* st.session_state.last_refresh after the block: time.time() when the
\* refresh fired, else the value it had (or was initialised to).
NextLastRefresh(fired, lr, t) == IF fired THEN t ELSE lr

\* A block that keeps the timer running while the checkbox is off: an else
\* branch stores the current time, so that re-enabling waits a full interval.
TickRestartWhenOff(enabled) ==
    LET lr    == IF last_refresh_set THEN last_refresh ELSE now
        fired == enabled /\ Due(now, lr)
    IN  /\ last_refresh_set' = TRUE
        /\ last_refresh' = IF enabled THEN NextLastRefresh(fired, lr, now)
                           ELSE now
        /\ cache' = IF fired THEN ClearCache(cache) ELSE cache
        /\ before' = cache
        /\ hist' = IF fired THEN NoteClear(hist, FALSE) ELSE hist
        /\ fireAt' = IF fired THEN now ELSE fireAt
        /\ pc' = IF fired THEN "sidebar" ELSE "idle"
        /\ last' = [op |-> "tick", at |-> now, auto |-> auto_refresh,
                    fired |-> fired, prevSet |-> last_refresh_set,
                    prevLast |-> last_refresh, prevFireAt |-> fireAt]
        /\ UNCHANGED <<inflight, now, auto_refresh, button, passes, failures>>

\* The block with st.rerun() written before st.cache_data.clear(): the rerun
\* leaves the script, so a due check restarts the pass with the cache as it was.
TickRerunBeforeClear(enabled) ==
    LET lr    == IF last_refresh_set THEN last_refresh ELSE now
        fired == enabled /\ Due(now, lr)
    IN  /\ last_refresh_set' = (last_refresh_set \/ enabled)
        /\ last_refresh' = IF enabled THEN NextLastRefresh(fired, lr, now)
                           ELSE last_refresh
        /\ cache' = cache
        /\ before' = cache
        /\ hist' = hist
        /\ fireAt' = IF fired THEN now ELSE fireAt
        /\ pc' = IF fired THEN "sidebar" ELSE "idle"
        /\ last' = [op |-> "tick", at |-> now, auto |-> auto_refresh,
                    fired |-> fired, prevSet |-> last_refresh_set,
                    prevLast |-> last_refresh, prevFireAt |-> fireAt]
        /\ UNCHANGED <<inflight, now, auto_refresh, button, passes, failures>>

\* The auto-refresh block under a checkbox value:
\* if auto_refresh:
\*     if 'last_refresh' not in st.session_state: last_refresh = time.time()
\*     if time.time() - last_refresh > 60:
\*         last_refresh = time.time(); st.cache_data.clear(); st.rerun()
TickBlock(enabled) ==
    LET lr    == IF last_refresh_set THEN last_refresh ELSE now
        fired == enabled /\ Due(now, lr)
    IN  /\ last_refresh_set' = (last_refresh_set \/ enabled)
        /\ last_refresh' = IF enabled THEN NextLastRefresh(fired, lr, now)
                           ELSE last_refresh
        /\ cache' = IF fired THEN ClearCache(cache) ELSE cache
        /\ before' = cache
        /\ hist' = IF fired THEN NoteClear(hist, FALSE) ELSE hist
        /\ fireAt' = IF fired THEN now ELSE fireAt
        /\ pc' = IF fired THEN "sidebar" ELSE "idle"
        /\ last' = [op |-> "tick", at |-> now, auto |-> auto_refresh,
                    fired |-> fired, prevSet |-> last_refresh_set,
                    prevLast |-> last_refresh, prevFireAt |-> fireAt]
        /\ UNCHANGED <<inflight, now, auto_refresh, button, passes, failures>>

\* The block run whatever the checkbox says.
AutoRefreshAlways == pc = "tick" /\ TickBlock(TRUE)

\* The end of the script: the auto-refresh block, then the pass is over.
AutoRefresh == pc = "tick" /\ TickBlock(auto_refresh)

Next ==
    \/ UserInteracts
    \/ UserClicksRefresh
    \/ Advance
    \/ RefreshNow
    \/ Sidebar
    \/ FetchStats1
    \/ FetchStats2
    \/ FetchTimeseries
    \/ FetchVehicles
    \/ AutoRefresh

Spec == Init /\ [][Next]_vars

TypeOK ==
    /\ now \in 0..MaxTime
    /\ \A k \in Keys : cache[k].at <= now
    /\ last_refresh <= now
    /\ failures \in 0..MaxFailures
    /\ passes \in 0..MaxPasses

\* ------------------------------------------------------------------ claims
IsFetch == last.op = "fetch"
IsTick == last.op = "tick"
IsManual == last.op = "manual"
Empty(c) == \A k \in Keys : ~c[k].has
\* The latest step dropped an entry from the cache.
Dropped == \E k \in Keys : before[k].has /\ ~cache[k].has

\* C1 as stated: after a successful fetch of a url at t0, every fetch_data of
\* that url called at t1 with t1 - t0 < ttl makes no network call and returns
\* the value obtained at t0.
C1_FreshnessUnconditional ==
    (IsFetch /\ last.prev.okAt # Never /\ last.start - last.prev.okAt < TTL)
        => (last.calls = 0 /\ last.ret = last.prev.okVal)

\* C1 amended: after a successful fetch of a url at t0, every fetch_data of
\* that url called at t1 with t1 - t0 < ttl, the cache not having been cleared
\* between t0 and t1, makes no network call and returns the value obtained at t0.
C1_FreshnessUnlessCleared ==
    (IsFetch /\ last.prev.okAt # Never /\ last.start - last.prev.okAt < TTL
             /\ ~last.prev.clearedSinceOk)
        => (last.calls = 0 /\ last.ret = last.prev.okVal)

\* A call 50 s after the successful fetch, served from the cache.
C1_Witness ==
    /\ IsFetch /\ last.prev.okAt # Never /\ ~last.prev.clearedSinceOk
    /\ last.start - last.prev.okAt = 50
    /\ last.calls = 0 /\ last.ret = last.prev.okVal

\* C2: a fetch_data of a url whose latest network fetch was at t0, called at
\* t1 with t1 - t0 >= ttl, makes exactly one network call.
C2_ExpiryRefetch ==
    (IsFetch /\ last.prev.netAt # Never /\ last.start - last.prev.netAt >= TTL)
        => last.calls = 1

\* A call at the age of exactly the ttl, the entry still stored, refetches.
C2_Witness ==
    /\ IsFetch /\ last.prev.netAt # Never /\ ~last.prev.clearedSinceNet
    /\ before[last.key].has
    /\ last.start - last.prev.netAt = TTL
    /\ last.calls = 1

\* C3: the first fetch_data of any url after a manual refresh makes a network
\* call, however recently the url was fetched.
C3_ManualInvalidation ==
    (IsFetch /\ last.prev.manualPending) => last.calls = 1

\* A url fetched from the network, cleared by the button and fetched again
\* within its ttl.
C3_Witness ==
    /\ IsFetch /\ last.prev.manualPending
    /\ last.prev.netAt # Never /\ last.start - last.prev.netAt < TTL
    /\ last.calls = 1

\* C4: when the network call of a re-fetch fails, the entry of the url (its
\* prior value and its fetchedAt) is left as it was and the call reports the
\* failure.
C4_FailureIsolation ==
    (IsFetch /\ last.calls = 1 /\ ~last.ok /\ before[last.key].has
             /\ before[last.key].val # None)
        => (cache[last.key] = before[last.key] /\ last.ret = None)

\* C5: the first fetch_data of a url after a call whose network call failed
\* makes a new network call.
C5_RetryOnNextAccess ==
    (IsFetch /\ last.prev.lastFailed) => last.calls = 1

\* C6 as stated: two network fetches of one url are never less than a ttl
\* apart.
C6_FetchRateBound ==
    (IsFetch /\ last.calls = 1 /\ last.prev.netAt # Never)
        => last.at - last.prev.netAt >= TTL

\* C6 amended: two network fetches of one url with no cache clear between
\* them are never less than a ttl apart.
C6_FetchRateBoundUnlessCleared ==
    (IsFetch /\ last.calls = 1 /\ last.prev.netAt # Never
             /\ ~last.prev.clearedSinceNet)
        => last.at - last.prev.netAt >= TTL

\* A second network fetch of a url, no clear in between.
C6_Witness ==
    /\ IsFetch /\ last.calls = 1 /\ last.prev.netAt # Never
    /\ ~last.prev.clearedSinceNet
    /\ last.at - last.prev.netAt >= TTL

\* The check of C7 is due: the checkbox is on and more than 60 s have passed
\* since the last_refresh the check found.
TickDue == last.auto /\ last.prevSet /\ last.at - last.prevLast > 60

\* C7: a due check clears the whole cache, sets last_refresh to the current
\* time and reruns; any other check clears nothing, leaves an existing
\* last_refresh as it is and does not rerun.
C7_TickSemantics ==
    IsTick =>
        /\ TickDue => /\ Empty(cache)
                      /\ last_refresh_set /\ last_refresh = last.at
                      /\ pc = "sidebar"
        /\ ~TickDue => /\ cache = before
                       /\ last.prevSet => (last_refresh_set /\ last_refresh = last.prevLast)
                       /\ pc = "idle"

\* A due check that found entries in the cache.
C7_Witness == IsTick /\ TickDue /\ ~Empty(before) /\ Empty(cache)

C9_DisabledAutoRefresh ==
    /\ (IsTick /\ ~last.auto)
           => /\ ~last.fired
              /\ cache = before
              /\ last_refresh_set = last.prevSet
              /\ last_refresh = last.prevLast
              /\ pc = "idle"
    /\ (~auto_refresh /\ Dropped) => IsManual

\* A check with the checkbox off, more than 60 s after last_refresh, entries
\* in the cache.
C9_Witness ==
    /\ IsTick /\ ~last.auto /\ last.prevSet
    /\ last.at - last.prevLast > RefreshInterval
    /\ ~Empty(cache)

C11_NoStaleServed ==
    IsFetch =>
        LET e == before[last.key]
        IN  /\ last.calls = 0 =>
                (e.has /\ last.start - e.at < TTL /\ last.ret = e.val)
            /\ (e.has /\ last.start - e.at >= TTL) =>
                (last.calls = 1 /\ (last.ret = e.val => ~last.ok))

\* A call that found a stale value, fetched, failed, and did not return it.
C11_Witness ==
    /\ IsFetch /\ before[last.key].has /\ before[last.key].val # None
    /\ last.start - before[last.key].at >= TTL
    /\ last.calls = 1 /\ ~last.ok /\ last.ret # before[last.key].val

\* ------------------------------------------- fetch_data in the four variants
\* The fetch_data of src/app.py, src/app_old.py, pages/Analytics and
\* pages/Vehicle_Tracker applied to one response of the API.
Variants == {"app", "app_old", "analytics", "tracker"}
Transports == {"ok", "error", "timeout"}
Statuses == {200, 304, 404, 500}
\* A response: how the transport ended, the status line, whether the body
\* decodes as JSON.
Responses == [transport : Transports, status : Statuses, json : BOOLEAN]

\* response.raise_for_status(): HTTPError for a 4xx or 5xx status.
RaiseForStatus(status) == status >= 400 /\ status < 600

\* Only src/app.py calls raise_for_status() before json().
ChecksStatus(v) == v = "app"

\* The value fetch_data returns for a response: requests.get raises on a
\* transport error or timeout, raise_for_status (where called) on 4xx/5xx,
\* json() on an undecodable body; every exception is caught and None returned.
FetchDataOf(v, r) ==
    IF r.transport # "ok" THEN None
    ELSE IF ChecksStatus(v) /\ RaiseForStatus(r.status) THEN None
    ELSE IF ~r.json THEN None
    ELSE Body(0)

\* The session's variables at rest, for the specifications of single functions.
AtRest ==
    /\ now = 0
    /\ cache = [k \in Keys |-> NoEntry]
    /\ last_refresh_set = FALSE
    /\ last_refresh = 0
    /\ auto_refresh = TRUE
    /\ button = FALSE
    /\ passes = 0
    /\ failures = 0
    /\ hist = [k \in Keys |-> NoHist]
    /\ fireAt = Never
    /\ before = [k \in Keys |-> NoEntry]
    /\ inflight = [k \in Keys |-> 0]

RestVars == <<now, cache, last_refresh_set, last_refresh, auto_refresh, button,
              passes, failures, hist, fireAt, before, inflight>>

InitFetch ==
    /\ AtRest
    /\ pc = "request"
    /\ \E v \in Variants, r \in Responses :
           last = [op |-> "request", variant |-> v, resp |-> r]

\* One call of a variant's fetch_data on the response.
CallFetch(v) ==
    /\ pc = "request"
    /\ last.variant = v
    /\ pc' = "returned"
    /\ last' = [op |-> "returned", variant |-> v, resp |-> last.resp,
                ret |-> FetchDataOf(v, last.resp)]
    /\ UNCHANGED RestVars

FetchApp == CallFetch("app")
FetchAppOld == CallFetch("app_old")
FetchAnalytics == CallFetch("analytics")
FetchTracker == CallFetch("tracker")

NextFetch ==
    \/ FetchApp
    \/ FetchAppOld
    \/ FetchAnalytics
    \/ FetchTracker

SpecFetch == InitFetch /\ [][NextFetch]_vars

\* The response is a failure in the sense of the specification: a transport
\* error, a timeout, or a status outside 2xx.
IsFailure(r) == r.transport # "ok" \/ r.status < 200 \/ r.status >= 300

\* C12: in every variant a response with a non-2xx status, a transport error
\* or a timeout yields the failure result, never the body.
C12_FailureClassification ==
    (pc = "returned" /\ IsFailure(last.resp)) => last.ret = None

\* C13: a failed network call makes fetch_data return the failure result
\* (nothing is raised to the script), the pass goes on, and every pass ends
\* with the auto-refresh check.
C13_FailuresDoNotAbort ==
    /\ (IsFetch /\ last.calls = 1 /\ ~last.ok)
           => (last.ret = None /\ ~last.raised /\ pc # "idle")
    /\ pc = "idle" => last.op \in {"tick", "advance"}

\* The check at the end of a pass whose vehicles fetch failed.
C13_Witness == IsTick /\ hist["vehicles"].lastFailed /\ hist["vehicles"].netAt = now

\* C14: in a home-page pass a failed stats fetch takes away only the stats
\* sections; once the second stats call has returned, the next fetch of the
\* pass is the timeseries fetch whether or not the stats fetch succeeded.
C14_PartialFailureIsolation ==
    (IsFetch /\ last.key = "stats" /\ pc # "stats2") => pc = "timeseries"

\* The steps the program takes on its own: a script that has started runs to
\* its end.  Events of the user and the passing of time are not among them.
ScriptStep ==
    \/ RefreshNow
    \/ Sidebar
    \/ FetchStats1
    \/ FetchStats2
    \/ FetchTimeseries
    \/ FetchVehicles
    \/ AutoRefresh

\* The session under the scheduling Streamlit gives: a running script is
\* executed to its end; nothing obliges the user to interact.
FairSpec == Spec /\ WF_vars(ScriptStep)

\* The session waits for an event with the checkbox on and the refresh due.
OverdueIdle ==
    /\ pc = "idle" /\ passes < MaxPasses
    /\ auto_refresh /\ last_refresh_set
    /\ now - last_refresh > RefreshInterval

\* C15: with the checkbox on, whenever more than 60 s have passed since the
\* last refresh, a periodic refresh (cache cleared, script rerun) eventually
\* happens (unless the checkbox is turned off first), with no interaction
\* of the user needed.
C15_LiveUpdates == OverdueIdle ~> ((IsTick /\ last.fired) \/ ~auto_refresh)

\* C16: a check that finds the interval elapsed clears the cache and resets
\* last_refresh within the same step, so the pass it restarts begins with an
\* empty cache and a refresh that is no longer due; and the cycle has no
\* terminal state: a script that is running always has a next step, and a
\* session waiting for an event can always start another pass (as long as the
\* run has passes left).
C16_RefreshCycle ==
    /\ (IsTick /\ last.fired)
           => /\ Empty(cache)
              /\ last_refresh_set /\ last_refresh = now
              /\ ~Due(now, last_refresh)
              /\ pc = "sidebar" /\ ~button
    /\ pc # "idle" => ENABLED ScriptStep
    /\ (pc = "idle" /\ passes < MaxPasses) => ENABLED UserInteracts

\* A later cycle: a periodic refresh after an earlier one, entries dropped.
C16_Witness ==
    /\ IsTick /\ last.fired /\ ~Empty(before)
    /\ last.prevFireAt # Never /\ last.prevLast = last.prevFireAt

\* ------------------------------------------------------- the three pages
\* One session that visits the home page (src/app.py), the Analytics page
\* and the Vehicle Tracker page.  st.cache_data is one store for the whole
\* process; each page's fetch_data and generate_historical_data are cached
\* functions of it.  One call per cached function stands for its call sites:
\* home ?type=vehicles, Analytics ?type=stats, Tracker ?type=vehicles.
StoreKeys == {"app.vehicles", "analytics.stats", "tracker.vehicles",
              "analytics.historical"}

\* The ttl a cached function was decorated with.
TtlOf(k) == IF k = "analytics.historical" THEN HistoricalTTL ELSE TTL

\* An entry of the store is served while its age is below its function's ttl.
FreshIn(k, e, t) == IF TtlOf(k) = TTL THEN Fresh(e, t)
                    ELSE e.has /\ t - e.at < TtlOf(k)

Note(op, page, cleared, ended, ticked) ==
    [op |-> op, page |-> page, cleared |-> cleared, ended |-> ended,
     ticked |-> ticked]

InitPages ==
    /\ now = 0
    /\ cache = [k \in StoreKeys |-> NoEntry]
    /\ last_refresh_set = FALSE
    /\ last_refresh = 0
    /\ auto_refresh = TRUE
    /\ button = FALSE
    /\ pc = "idle"
    /\ passes = 0
    /\ failures = 0
    /\ hist = [k \in Keys |-> NoHist]
    /\ fireAt = Never
    /\ before = [k \in StoreKeys |-> NoEntry]
    /\ inflight = [k \in Keys |-> 0]
    /\ last = Note("init", "none", FALSE, FALSE, FALSE)

\* A call of a cached function: a fresh entry is returned, else the body
\* runs and its return value is stored.
CachedCall(k, o) ==
    LET e   == cache[k]
        hit == FreshIn(k, e, now)
        t   == IF hit THEN now ELSE now + Duration(o)
        ret == IF hit THEN e.val ELSE FetchBody(o, Body(t))
    IN  /\ t <= MaxTime
        /\ now' = t
        /\ cache' = IF hit THEN cache
                    ELSE [cache EXCEPT ![k] = [has |-> TRUE, val |-> ret, at |-> t]]
        /\ before' = cache

\* The user opens a page or changes a widget on it; on the home page and on
\* the Vehicle Tracker page the event may be a click on the refresh button.
Visit(page, first, clicked, auto) ==
    /\ pc = "idle"
    /\ passes < MaxPasses
    /\ passes' = passes + 1
    /\ button' = clicked
    /\ auto_refresh' = auto
    /\ pc' = first
    /\ before' = cache
    /\ last' = Note("visit", page, FALSE, FALSE, FALSE)
    /\ UNCHANGED <<inflight, now, cache, last_refresh_set, last_refresh, failures, hist, fireAt>>

VisitHome == \E b, a \in BOOLEAN : Visit("home", "home_button", b, a)

VisitAnalytics == Visit("analytics", "analytics_fetch", FALSE, auto_refresh)

VisitTracker == \E b \in BOOLEAN : Visit("tracker", "tracker_button", b, auto_refresh)

\* Time passes while no script is running.
AdvancePages ==
    /\ pc = "idle"
    /\ \E d \in TimeSteps : now + d <= MaxTime /\ now' = now + d
    /\ before' = cache
    /\ last' = Note("advance", "none", FALSE, FALSE, FALSE)
    /\ UNCHANGED <<inflight, cache, last_refresh_set, last_refresh, auto_refresh, button,
                   pc, passes, failures, hist, fireAt>>

\* if st.button(...): st.cache_data.clear(); st.rerun()
ButtonClear(page, at) ==
    /\ pc = at
    /\ button
    /\ cache' = ClearCache(cache)
    /\ before' = cache
    /\ button' = FALSE
    /\ pc' = at
    /\ last' = Note("manual", page, TRUE, TRUE, FALSE)
    /\ UNCHANGED <<inflight, now, last_refresh_set, last_refresh, auto_refresh, passes,
                   failures, hist, fireAt>>

\* The button was not clicked: the script goes on.
ButtonSkip(page, at, next) ==
    /\ pc = at
    /\ ~button
    /\ pc' = next
    /\ before' = cache
    /\ last' = Note("sidebar", page, FALSE, FALSE, FALSE)
    /\ UNCHANGED <<inflight, now, cache, last_refresh_set, last_refresh, auto_refresh,
                   button, passes, failures, hist, fireAt>>

\* Home page: "Refresh Now".
HomeRefreshNow == ButtonClear("home", "home_button")

HomeSidebar == ButtonSkip("home", "home_button", "home_fetch")

\* Home page: go_vehicles = fetch_data(f"{GO_API}?type=vehicles")
HomeFetch ==
    /\ pc = "home_fetch"
    /\ \E o \in NetOutcomes : CachedCall("app.vehicles", o)
    /\ pc' = "home_tick"
    /\ last' = Note("fetch", "home", FALSE, FALSE, FALSE)
    /\ UNCHANGED <<inflight, last_refresh_set, last_refresh, auto_refresh, button, passes,
                   failures, hist, fireAt>>

\* Home page: the auto-refresh block ends the script.
HomeAutoRefresh ==
    LET lr    == IF last_refresh_set THEN last_refresh ELSE now
        fired == auto_refresh /\ Due(now, lr)
    IN  /\ pc = "home_tick"
        /\ last_refresh_set' = (last_refresh_set \/ auto_refresh)
        /\ last_refresh' = IF auto_refresh THEN NextLastRefresh(fired, lr, now)
                           ELSE last_refresh
        /\ cache' = IF fired THEN ClearCache(cache) ELSE cache
        /\ before' = cache
        /\ pc' = IF fired THEN "home_button" ELSE "idle"
        /\ last' = Note("tick", "home", fired, TRUE, TRUE)
        /\ UNCHANGED <<inflight, now, auto_refresh, button, passes, failures, hist, fireAt>>

\* Analytics: go_stats = fetch_data(f"{GO_API}?type=stats")
AnalyticsFetch ==
    /\ pc = "analytics_fetch"
    /\ \E o \in NetOutcomes : CachedCall("analytics.stats", o)
    /\ pc' = "analytics_historical"
    /\ last' = Note("fetch", "analytics", FALSE, FALSE, FALSE)
    /\ UNCHANGED <<inflight, last_refresh_set, last_refresh, auto_refresh, button, passes,
                   failures, hist, fireAt>>

\* Analytics: df_history = generate_historical_data(days), which makes no
\* network call; the footer follows and the script ends.
AnalyticsHistorical ==
    /\ pc = "analytics_historical"
    /\ CachedCall("analytics.historical", "ok")
    /\ pc' = "idle"
    /\ last' = Note("historical", "analytics", FALSE, TRUE, FALSE)
    /\ UNCHANGED <<inflight, last_refresh_set, last_refresh, auto_refresh, button, passes,
                   failures, hist, fireAt>>

\* Vehicle Tracker: "Refresh Data".
TrackerRefreshData == ButtonClear("tracker", "tracker_button")

TrackerSidebar == ButtonSkip("tracker", "tracker_button", "tracker_fetch")

\* Vehicle Tracker: go_vehicles = fetch_data(f"{GO_API}?type=vehicles"); a
\* falsy result ends the script by st.stop(), otherwise the page is rendered
\* down to the footer and the script ends.
TrackerFetch ==
    /\ pc = "tracker_fetch"
    /\ \E o \in NetOutcomes : CachedCall("tracker.vehicles", o)
    /\ pc' = "idle"
    /\ last' = Note(IF Truthy(cache'["tracker.vehicles"].val) THEN "footer" ELSE "stop",
                    "tracker", FALSE, TRUE, FALSE)
    /\ UNCHANGED <<inflight, last_refresh_set, last_refresh, auto_refresh, button, passes,
                   failures, hist, fireAt>>

NextPages ==
    \/ VisitHome
    \/ VisitAnalytics
    \/ VisitTracker
    \/ AdvancePages
    \/ HomeRefreshNow
    \/ HomeSidebar
    \/ HomeFetch
    \/ HomeAutoRefresh
    \/ AnalyticsFetch
    \/ AnalyticsHistorical
    \/ TrackerRefreshData
    \/ TrackerSidebar
    \/ TrackerFetch

SpecPages == InitPages /\ [][NextPages]_vars

\* A click on a refresh button is waiting to be handled.
ClickPending == pc \in {"home_button", "tracker_button"} /\ button

\* C17: after st.cache_data.clear(), manual or periodic, no cached function
\* has an entry, whatever the entries' ages and ttls were; and a click on a
\* refresh button is always followed by the clear, whatever the store holds.
C17_InvalidateAllTotal ==
    /\ last.cleared => \A k \in StoreKeys : ~cache[k].has
    /\ ClickPending => ENABLED (HomeRefreshNow \/ TrackerRefreshData)

\* A clear that found a fetch_data entry within its 60 s and an entry of
\* generate_historical_data older than 60 s, within its 3600 s.
C17_Witness ==
    /\ last.cleared
    /\ \E k \in StoreKeys : TtlOf(k) = TTL /\ FreshIn(k, before[k], now)
    /\ before["analytics.historical"].has
    /\ now - before["analytics.historical"].at > TTL
    /\ FreshIn("analytics.historical", before["analytics.historical"], now)

\* C18: on every page, a render pass that runs to its end has evaluated the
\* periodic-refresh decision (the auto-refresh block) before the session
\* waits for the next event.
C18_EveryPageRefreshes == (pc = "idle" /\ last.ended) => last.ticked

\* ------------------------------------------------- fetches in flight
\* The home page with each network call of fetch_data in two steps: the
\* request is sent, and later its answer (or exception) arrives.  The script
\* is one thread of straight-line code and requests.get is a blocking call,
\* so the script stays at the call until the answer is there.  An event of
\* the user during a run makes Streamlit stop the run at the next st.* call
\* and start the script again from the top.
CallSites == {"stats1", "stats2", "timeseries", "vehicles"}

\* The url fetched at a call site.
KeyAt(p) == IF p \in {"stats1", "stats2"} THEN "stats" ELSE p

\* The script is inside requests.get at the call site.
WaitAt(p) ==
    CASE p = "stats1" -> "stats1_wait"
      [] p = "stats2" -> "stats2_wait"
      [] p = "timeseries" -> "timeseries_wait"
      [] p = "vehicles" -> "vehicles_wait"

\* Where the script goes after the call at a site returned ret.
After(p, ret) ==
    CASE p = "stats1" -> "stats2"
      [] p = "stats2" -> IF Truthy(ret) THEN "timeseries" ELSE "vehicles"
      [] p = "timeseries" -> "vehicles"
      [] p = "vehicles" -> "tick"

\* A run that could be restarted at any moment, inside a network call too.
InterruptibleAnywhere(p) == TRUE

\* A run is stopped for a rerun only between statements of the script:
\* never while the thread is blocked inside requests.get.
Interruptible(p) == \A s \in CallSites : p # WaitAt(s)

\* fetch_data(url) is called: a fresh entry is returned at once; otherwise
\* the body starts and sends the request.
BeginFetch ==
    \E p \in CallSites :
        /\ pc = p
        /\ IF Fresh(cache[KeyAt(p)], now)
           THEN /\ FetchData(KeyAt(p), "ok")
                /\ pc' = After(p, last'.ret)
                /\ UNCHANGED inflight
           ELSE /\ inflight' = [inflight EXCEPT ![KeyAt(p)] = @ + 1]
                /\ pc' = WaitAt(p)
                /\ before' = cache
                /\ last' = [op |-> "request", key |-> KeyAt(p), at |-> now]
                /\ UNCHANGED <<now, cache, failures, hist>>
        /\ UNCHANGED <<last_refresh_set, last_refresh, auto_refresh, button,
                       passes, fireAt>>

\* requests.get returns or raises: the body of fetch_data finishes, its
\* result is stored and the script goes on.
EndFetch ==
    \E p \in CallSites :
        /\ pc = WaitAt(p)
        /\ \E o \in NetOutcomes : FetchData(KeyAt(p), o)
        /\ inflight' = [inflight EXCEPT ![KeyAt(p)] = @ - 1]
        /\ pc' = IF last'.raised THEN "idle" ELSE After(p, last'.ret)
        /\ UNCHANGED <<last_refresh_set, last_refresh, auto_refresh, button,
                       passes, fireAt>>

\* The user changes the checkbox while the script is running: the run is
\* stopped and the script starts again from the top.
InterruptRun ==
    /\ pc # "idle"
    /\ Interruptible(pc)
    /\ passes < MaxPasses
    /\ passes' = passes + 1
    /\ auto_refresh' = ~auto_refresh
    /\ button' = FALSE
    /\ pc' = "sidebar"
    /\ before' = cache
    /\ last' = [op |-> "event"]
    /\ UNCHANGED <<inflight, now, cache, last_refresh_set, last_refresh, failures,
                   hist, fireAt>>

NextFlight ==
    \/ UserInteracts
    \/ UserClicksRefresh
    \/ InterruptRun
    \/ Advance
    \/ RefreshNow
    \/ Sidebar
    \/ BeginFetch
    \/ EndFetch
    \/ AutoRefresh

SpecFlight == Init /\ [][NextFlight]_vars

OldSites == <<"vehicles", "summary", "alerts", "stats", "timeseries", "union",
              "trains", "buses">>

OldKeys == {OldSites[i] : i \in 1..Len(OldSites)}

\* Render passes the user starts after the first one.
MaxOldPasses == 1

\* A call is answered, or runs into requests' timeout.
OldOutcomes == {"ok", "timeout"}

\* Where the script stands after the i-th call.
OldAfter(i) == IF i < Len(OldSites) THEN OldSites[i + 1] ELSE "old_tick"

\* What started the current pass: the user, the button's rerun or the
\* auto-refresh block's rerun.
Step(op, origin, fired) == [op |-> op, origin |-> origin, fired |-> fired, at |-> now]

InitOld ==
    /\ now = 0
    /\ cache = [k \in OldKeys |-> NoEntry]
    /\ last_refresh_set = FALSE
    /\ last_refresh = 0
    /\ auto_refresh = TRUE
    /\ button = FALSE
    /\ pc = "old_top"
    /\ passes = 0
    /\ failures = 0
    /\ hist = [k \in Keys |-> NoHist]
    /\ fireAt = Never
    /\ before = [k \in OldKeys |-> NoEntry]
    /\ inflight = [k \in Keys |-> 0]
    /\ last = Step("init", "user", FALSE)

\* A user event starts a render pass; it may be a click on "Refresh" or a
\* change of the "Auto-refresh" checkbox.
OldEvent ==
    /\ pc = "idle"
    /\ passes < MaxOldPasses
    /\ passes' = passes + 1
    /\ \E b \in BOOLEAN : button' = b
    /\ \E a \in BOOLEAN : auto_refresh' = a
    /\ pc' = "old_top"
    /\ before' = cache
    /\ last' = Step("event", "user", FALSE)
    /\ UNCHANGED <<inflight, now, cache, last_refresh_set, last_refresh, failures,
                   hist, fireAt>>

OldAdvance ==
    /\ pc = "idle"
    /\ \E d \in TimeSteps : now + d <= MaxTime /\ now' = now + d
    /\ before' = cache
    /\ last' = Step("advance", last.origin, FALSE)
    /\ UNCHANGED <<inflight, cache, last_refresh_set, last_refresh, auto_refresh,
                   button, pc, passes, failures, hist, fireAt>>

\* if st.button("Refresh"): st.cache_data.clear(); st.rerun()
OldRefresh ==
    /\ pc = "old_top"
    /\ button
    /\ cache' = ClearCache(cache)
    /\ before' = cache
    /\ button' = FALSE
    /\ pc' = "old_top"
    /\ last' = Step("manual", "manual", FALSE)
    /\ UNCHANGED <<inflight, now, last_refresh_set, last_refresh, auto_refresh,
                   passes, failures, hist, fireAt>>

OldSidebar ==
    /\ pc = "old_top"
    /\ ~button
    /\ pc' = OldSites[1]
    /\ before' = cache
    /\ last' = Step("sidebar", last.origin, FALSE)
    /\ UNCHANGED <<inflight, now, cache, last_refresh_set, last_refresh,
                   auto_refresh, button, passes, failures, hist, fireAt>>

\* One of the eight calls x = fetch_data(url); each result is only tested
\* for truthiness by its own section, and the next call follows.
OldFetch ==
    \E i \in 1..Len(OldSites) :
        /\ pc = OldSites[i]
        /\ \E o \in OldOutcomes : CachedCall(OldSites[i], o)
        /\ pc' = OldAfter(i)
        /\ last' = Step("fetch", last.origin, FALSE)
        /\ UNCHANGED <<inflight, last_refresh_set, last_refresh, auto_refresh,
                       button, passes, failures, hist, fireAt>>

\* if auto_refresh:
\*     if 'last' not in st.session_state: st.session_state.last = time.time()
\*     if time.time() - st.session_state.last > 60:
\*         st.session_state.last = time.time(); st.cache_data.clear(); st.rerun()
OldAutoRefresh ==
    LET lr    == IF last_refresh_set THEN last_refresh ELSE now
        fired == auto_refresh /\ Due(now, lr)
    IN  /\ pc = "old_tick"
        /\ last_refresh_set' = (last_refresh_set \/ auto_refresh)
        /\ last_refresh' = IF auto_refresh THEN NextLastRefresh(fired, lr, now)
                           ELSE last_refresh
        /\ cache' = IF fired THEN ClearCache(cache) ELSE cache
        /\ before' = cache
        /\ fireAt' = IF fired THEN now ELSE fireAt
        /\ pc' = IF fired THEN "old_top" ELSE "idle"
        /\ last' = [op |-> "tick", origin |-> IF fired THEN "periodic" ELSE last.origin,
                    by |-> last.origin, fired |-> fired, at |-> now]
        /\ UNCHANGED <<inflight, now, auto_refresh, button, passes, failures, hist>>

NextOld ==
    \/ OldEvent
    \/ OldAdvance
    \/ OldRefresh
    \/ OldSidebar
    \/ OldFetch
    \/ OldAutoRefresh

SpecOld == InitOld /\ [][NextOld]_vars

\* C21: the check of the pass that a periodic refresh restarted reports no
\* refresh, however long the fetches of that pass took: the chain
\* refresh -> rerun stops after one rerun.
C21_NoRerunLoop == (IsTick /\ last.by = "periodic") => ~last.fired

\* C22: the first check of a session made with the checkbox on sets
\* last_refresh to the current time and reports no refresh; later checks do
\* not initialise it again; so the first periodic refresh comes more than
\* 60 s after that first check.
C22_SessionStart ==
    /\ (IsTick /\ last.auto /\ ~last.prevSet)
           => /\ last_refresh_set /\ last_refresh = last.at
              /\ ~last.fired /\ cache = before /\ pc = "idle"
    /\ (IsTick /\ last.prevSet /\ ~last.fired)
           => (last_refresh_set /\ last_refresh = last.prevLast)
    /\ (IsTick /\ last.fired /\ last.prevFireAt = Never)
           => (last.prevSet /\ last.at - last.prevLast > RefreshInterval)

\* The first check of the session, at the end of a pass whose fetches took
\* time.
C22_Witness ==
    IsTick /\ last.auto /\ ~last.prevSet /\ last.at > 0 /\ ~Empty(cache)

\* ----------------------------------------------------------- two sessions
\* Two browser sessions of the home page in one Streamlit process.  The
\* st.cache_data store (cache) belongs to the process; st.session_state, the
\* widgets and the position in the script belong to each session, so
\* last_refresh_set, last_refresh, auto_refresh, button, pc, passes and
\* fireAt hold one value per session here, and hist holds the time of each
\* session's latest network call.  The call ?type=vehicles stands for the
\* fetch_data calls of a pass.
Sessions == {"A", "B"}

\* Render passes one session makes on user events (the opening included).
MaxSessionPasses == 2

\* The network call is answered or raises at once.
SessionOutcomes == {"ok", "raise"}

\* A timestamp kept by the process, one for all sessions.
SharedRefresh(lr, s, v) == [x \in DOMAIN lr |-> v]

\* st.session_state.last_refresh = v in session s.
OwnRefresh(lr, s, v) == [lr EXCEPT ![s] = v]

InitSessions ==
    /\ now = 0
    /\ cache = [k \in Keys |-> NoEntry]
    /\ last_refresh_set = [s \in Sessions |-> FALSE]
    /\ last_refresh = [s \in Sessions |-> 0]
    /\ auto_refresh = [s \in Sessions |-> TRUE]
    /\ button = [s \in Sessions |-> FALSE]
    /\ pc = [s \in Sessions |-> "closed"]
    /\ passes = [s \in Sessions |-> 0]
    /\ failures = 0
    /\ hist = [s \in Sessions |-> Never]
    /\ fireAt = [s \in Sessions |-> Never]
    /\ before = [k \in Keys |-> NoEntry]
    /\ inflight = [k \in Keys |-> 0]
    /\ last = [op |-> "init"]

\* A browser opens the page: a new session, checkbox at its default, and
\* its first render pass.
OpenSession ==
    \E s \in Sessions :
        /\ pc[s] = "closed"
        /\ pc' = [pc EXCEPT ![s] = "sidebar"]
        /\ passes' = [passes EXCEPT ![s] = 1]
        /\ before' = cache
        /\ last' = [op |-> "open", s |-> s]
        /\ UNCHANGED <<inflight, now, cache, last_refresh_set, last_refresh,
                       auto_refresh, button, failures, hist, fireAt>>

\* A user event in a session: the checkbox is set or "Refresh Now" clicked.
SessionEvent ==
    \E s \in Sessions :
        /\ pc[s] = "idle"
        /\ passes[s] < MaxSessionPasses
        /\ passes' = [passes EXCEPT ![s] = @ + 1]
        /\ \E b \in BOOLEAN : button' = [button EXCEPT ![s] = b]
        /\ \E a \in BOOLEAN : auto_refresh' = [auto_refresh EXCEPT ![s] = a]
        /\ pc' = [pc EXCEPT ![s] = "sidebar"]
        /\ before' = cache
        /\ last' = [op |-> "event", s |-> s]
        /\ UNCHANGED <<inflight, now, cache, last_refresh_set, last_refresh,
                       failures, hist, fireAt>>

\* Time passes while no script is running.
SessionsAdvance ==
    /\ \A s \in Sessions : pc[s] \in {"idle", "closed"}
    /\ \E d \in TimeSteps : now + d <= MaxTime /\ now' = now + d
    /\ before' = cache
    /\ last' = [op |-> "advance"]
    /\ UNCHANGED <<inflight, cache, last_refresh_set, last_refresh, auto_refresh,
                   button, pc, passes, failures, hist, fireAt>>

\* if st.button("Refresh Now"): st.cache_data.clear(); st.rerun()
SessionRefreshNow ==
    \E s \in Sessions :
        /\ pc[s] = "sidebar"
        /\ button[s]
        /\ cache' = ClearCache(cache)
        /\ before' = cache
        /\ button' = [button EXCEPT ![s] = FALSE]
        /\ last' = [op |-> "manual", s |-> s, at |-> now, fired |-> TRUE,
                    prevSet |-> last_refresh_set, prevLast |-> last_refresh,
                    prevFireAt |-> fireAt]
        /\ UNCHANGED <<inflight, now, last_refresh_set, last_refresh, auto_refresh,
                       pc, passes, failures, hist, fireAt>>

SessionSidebar ==
    \E s \in Sessions :
        /\ pc[s] = "sidebar"
        /\ ~button[s]
        /\ pc' = [pc EXCEPT ![s] = "vehicles"]
        /\ before' = cache
        /\ last' = [op |-> "sidebar", s |-> s]
        /\ UNCHANGED <<inflight, now, cache, last_refresh_set, last_refresh,
                       auto_refresh, button, passes, failures, hist, fireAt>>

\* go_vehicles = fetch_data(f"{GO_API}?type=vehicles") in a session's pass,
\* on the store of the process.
SessionFetch ==
    \E s \in Sessions :
        /\ pc[s] = "vehicles"
        /\ \E o \in SessionOutcomes : CachedCall("vehicles", o)
        /\ pc' = [pc EXCEPT ![s] = "tick"]
        /\ hist' = IF Fresh(cache["vehicles"], now) THEN hist
                   ELSE [hist EXCEPT ![s] = now']
        /\ last' = [op |-> "fetch", s |-> s, key |-> "vehicles", at |-> now',
                    calls |-> IF Fresh(cache["vehicles"], now) THEN 0 ELSE 1,
                    prevNet |-> hist[s]]
        /\ UNCHANGED <<inflight, last_refresh_set, last_refresh, auto_refresh,
                       button, passes, failures, fireAt>>

\* The auto-refresh block of a session, on its own session_state.
SessionAutoRefresh ==
    \E s \in Sessions :
        LET lr    == IF last_refresh_set[s] THEN last_refresh[s] ELSE now
            fired == auto_refresh[s] /\ Due(now, lr)
        IN  /\ pc[s] = "tick"
            /\ last_refresh_set' =
                   [last_refresh_set EXCEPT ![s] = @ \/ auto_refresh[s]]
            /\ last_refresh' =
                   IF auto_refresh[s]
                   THEN OwnRefresh(last_refresh, s, NextLastRefresh(fired, lr, now))
                   ELSE last_refresh
            /\ cache' = IF fired THEN ClearCache(cache) ELSE cache
            /\ before' = cache
            /\ fireAt' = IF fired THEN [fireAt EXCEPT ![s] = now] ELSE fireAt
            /\ pc' = [pc EXCEPT ![s] = IF fired THEN "sidebar" ELSE "idle"]
            /\ last' = [op |-> "tick", s |-> s, at |-> now, fired |-> fired,
                        prevSet |-> last_refresh_set, prevLast |-> last_refresh,
                        prevFireAt |-> fireAt]
            /\ UNCHANGED <<inflight, now, auto_refresh, button, passes, failures,
                           hist>>

NextSessions ==
    \/ OpenSession
    \/ SessionEvent
    \/ SessionsAdvance
    \/ SessionRefreshNow
    \/ SessionSidebar
    \/ SessionFetch
    \/ SessionAutoRefresh

SpecSessions == InitSessions /\ [][NextSessions]_vars

\* The latest step cleared the store (button or auto-refresh block).
Cleared == last.op \in {"manual", "tick"} /\ last.fired

\* C23: a refresh made by one session empties the store of the process,
\* the other session's entries included, and leaves the other session's
\* last_refresh as it was; a fetch_data call that finds its entry gone calls
\* the network, however recently the url was fetched; and the periodic
\* clears are more than 60 s apart per session only.
C23_CrossSession ==
    /\ Cleared =>
           /\ Empty(cache)
           /\ \A s \in Sessions \ {last.s} :
                  /\ last_refresh[s] = last.prevLast[s]
                  /\ last_refresh_set[s] = last.prevSet[s]
    /\ (IsFetch /\ ~before[last.key].has) => last.calls = 1
    /\ (IsTick /\ last.fired /\ last.prevFireAt[last.s] # Never)
           => last.at - last.prevFireAt[last.s] > RefreshInterval

\* A session's fetch_data call goes to the network within 60 s of its own
\* previous network call, because the other session's periodic refresh
\* dropped the entry in between.
C23_Witness ==
    /\ IsFetch /\ last.calls = 1
    /\ last.prevNet # Never /\ last.at - last.prevNet < TTL
    /\ \E s \in Sessions \ {last.s} : fireAt[s] # Never /\ fireAt[s] >= last.prevNet
    /\ fireAt[last.s] = Never

\* C24: no step taken with the checkbox off changes last_refresh; and a check
\* made with the checkbox on more than 60 s after the stored last_refresh
\* fires at once (cache cleared, last_refresh reset, script rerun), also when
\* the checkbox has only just been turned on again.
C24_Toggle ==
    /\ [][~auto_refresh' => /\ last_refresh' = last_refresh
                            /\ last_refresh_set' = last_refresh_set]_vars
    /\ []((IsTick /\ last.auto /\ last.prevSet
                  /\ last.at - last.prevLast > RefreshInterval)
              => (last.fired /\ Empty(cache) /\ pc = "sidebar"
                  /\ last_refresh = last.at))

\* A check that fires in a pass served from an entry of vehicles that an
\* earlier pass stored more than 60 s after last_refresh: the check of that
\* earlier pass did not fire, so the checkbox was off then and is on now.
C24_Witness ==
    /\ IsTick /\ last.fired /\ last.prevSet
    /\ before["vehicles"].has
    /\ before["vehicles"].at < last.at
    /\ before["vehicles"].at - last.prevLast > RefreshInterval

\* C25: last_refresh, once set, is never later than the current time, stays
\* set, never decreases, and every step that changes it (or sets it) stores
\* the current time.
C25_TimestampInvariant ==
    /\ [](last_refresh_set => last_refresh <= now)
    /\ [][last_refresh_set => (last_refresh_set' /\ last_refresh' >= last_refresh)]_vars
    /\ [][(last_refresh' # last_refresh \/ last_refresh_set' # last_refresh_set)
              => (last_refresh_set' /\ last_refresh' = now')]_vars

\* A refresh has stored its time, later than the initial one, and time has
\* passed since.
C25_Witness ==
    /\ last_refresh_set /\ fireAt # Never
    /\ last_refresh = fireAt /\ last_refresh < now

\* C26: a click on "Refresh Now" is handled at the top of the script, as the
\* first step of its pass: the cache is cleared and the script restarted
\* with no fetch_data call and no auto-refresh check in between, last_refresh
\* and the clock as they were.  The auto-refresh check comes right after the
\* last fetch of a pass, and once it is made the pass is over.
C26_CheckPlacement ==
    /\ [](/\ button => pc = "sidebar"
          /\ IsManual => /\ pc = "sidebar" /\ ~button /\ Empty(cache)
                         /\ last_refresh = last.prevLast
                         /\ last_refresh_set = last.prevSet
                         /\ now = last.at
          /\ pc = "tick" => (IsFetch /\ last.key = "vehicles")
          /\ IsTick => pc \in {"idle", "sidebar"})
    /\ [][IsManual' => last.op = "event"]_vars

\* The pass restarted by a manual refresh reaches its first fetch with the
\* cache empty although a periodic refresh is due: the pass of the click made
\* no check.
C26_Witness ==
    /\ pc = "stats1" /\ Empty(cache)
    /\ hist["stats"].manualPending
    /\ auto_refresh /\ last_refresh_set /\ Due(now, last_refresh)

\* ------------------------------------------------- percentage metrics
\* The Network Overview block of the home page for one stats payload:
\* stats_dict holds 'On Time', 'Delayed' and 'Early', and may or may not
\* hold 'Total Vehicles'.
MaxVehicles == 3

\* Python's ZeroDivisionError, raised by x / 0 and caught nowhere in the script.
ZeroDivisionError == 0 - 2

\* stats_dict.get(key, default)
Get(present, value, default) == IF present THEN value ELSE default

\* round(n / d) for integers n >= 0, d > 0: to the nearest integer, a tie to
\* the even one.
PyRound(n, d) ==
    LET q == n \div d
        r == n % d
    IN  IF 2 * r < d THEN q
        ELSE IF 2 * r > d THEN q + 1
        ELSE IF q % 2 = 0 THEN q ELSE q + 1

\* round(x / total * 100)
Percent(x, total) ==
    IF total = 0 THEN ZeroDivisionError ELSE PyRound(100 * x, total)

StatsPayloads ==
    [present : {TRUE}, total : 0..MaxVehicles, on_time : 0..MaxVehicles,
     delayed : 0..MaxVehicles, early : 0..MaxVehicles]
    \cup
    [present : {FALSE}, total : {0}, on_time : 0..MaxVehicles,
     delayed : 0..MaxVehicles, early : 0..MaxVehicles]

InitMetrics ==
    /\ AtRest
    /\ pc = "on_time"
    /\ \E d \in StatsPayloads : last = [op |-> "stats", dict |-> d]

\* st.metric(..., delta=f"{round(x / stats_dict.get('Total Vehicles', 1) * 100)}%")
\* An exception ends the script where it was raised.
Metric(at, x, next) ==
    LET pct == Percent(x, Get(last.dict.present, last.dict.total, 1))
    IN  /\ pc = at
        /\ pc' = IF pct = ZeroDivisionError THEN "aborted" ELSE next
        /\ last' = [op |-> "metric", dict |-> last.dict, name |-> at, pct |-> pct]
        /\ UNCHANGED RestVars

OnTimeMetric == Metric("on_time", last.dict.on_time, "delayed")

DelayedMetric == Metric("delayed", last.dict.delayed, "early")

EarlyMetric == Metric("early", last.dict.early, "tick")

NextMetrics ==
    \/ OnTimeMetric
    \/ DelayedMetric
    \/ EarlyMetric

SpecMetrics == InitMetrics /\ [][NextMetrics]_vars

\* C27: for every stats payload the three percentages are computed without
\* a division by zero, and the pass is not aborted.
C27_PercentagesDefined ==
    last.op = "metric" => (last.pct # ZeroDivisionError /\ pc # "aborted")

\* ------------------------------------------------------------ route_data
\* GO_ROUTES of src/route_data.py: route code -> route name.
GO_ROUTES ==
    "ST" :> "Stouffville"
    @@ "RH" :> "Richmond Hill"
    @@ "MI" :> "Milton"
    @@ "LW" :> "Lakeshore West"
    @@ "LE" :> "Lakeshore East"
    @@ "KI" :> "Kitchener"
    @@ "BR" :> "Barrie"
    @@ "GT" :> "GO Train"
    @@ "96" :> "Oshawa / Finch Express"
    @@ "94" :> "Pickering / Square One"
    @@ "92" :> "Oshawa / Yorkdale"
    @@ "90" :> "Lakeshore East"
    @@ "88" :> "Peterborough / Oshawa"
    @@ "71" :> "Stouffville"
    @@ "70" :> "Uxbridge / Mount Joy"
    @@ "68" :> "Barrie / Newmarket"
    @@ "67" :> "Keswick / North York"
    @@ "65" :> "Newmarket / Toronto"
    @@ "61" :> "Richmond Hill"
    @@ "56" :> "Oshawa / Oakville"
    @@ "52" :> "Oshawa / Hwy 407 Terminal"
    @@ "48" :> "Guelph / Hwy 407 Terminal"
    @@ "47" :> "Hamilton / Hwy 407 Terminal"
    @@ "41" :> "Hamilton / Pickering"
    @@ "40" :> "Hamilton / Richmond Hill"
    @@ "38" :> "Bolton / Malton"
    @@ "37" :> "Orangeville / Brampton"
    @@ "36" :> "Brampton / North York Express"
    @@ "33" :> "Guelph / North York"
    @@ "32" :> "Brampton Trinity Common / North York"
    @@ "31" :> "Guelph / Toronto"
    @@ "30" :> "Kitchener / Bramalea"
    @@ "29" :> "Guelph / Mississauga"
    @@ "27" :> "Milton / North York"
    @@ "25" :> "Waterloo / Mississauga"
    @@ "22" :> "Milton / Oakville"
    @@ "21" :> "Milton"
    @@ "19" :> "Mississauga / North York"
    @@ "18" :> "Lakeshore West"
    @@ "17" :> "Waterloo / Hamilton"
    @@ "16" :> "Hamilton / Toronto Express"
    @@ "15" :> "Brantford / Aldershot"
    @@ "12" :> "Niagara Falls / Toronto"
    @@ "11" :> "Brock University"

\* Largest integer route code tried.
MaxRouteCode == 99

DigitChars == <<"0", "1", "2", "3", "4", "5", "6", "7", "8", "9">>

\* str(n) for an integer n >= 0: its decimal digits.
RECURSIVE IntStr(_)
IntStr(n) ==
    IF n < 10 THEN DigitChars[n + 1]
    ELSE IntStr(n \div 10) \o DigitChars[(n % 10) + 1]

\* Route codes as callers pass them: a string, an integer, or the float a
\* pandas column turns an integer into.
StrCodes == {"LW", "GT", "lw", "41", "041", " 41", "11", "99", "", "XX"}

RouteCodes ==
    [type : {"str"}, int : {0}, str : StrCodes]
    \cup [type : {"int", "float"}, int : 0..MaxRouteCode, str : {""}]

\* str(route_code)
Str(c) ==
    CASE c.type = "str" -> c.str
      [] c.type = "int" -> IntStr(c.int)
      [] c.type = "float" -> IntStr(c.int) \o ".0"

\* A lookup of the code itself, without str(): only string codes are found.
get_route_name_raw(route_code) ==
    IF route_code.type = "str" /\ route_code.str \in DOMAIN GO_ROUTES
    THEN GO_ROUTES[route_code.str]
    ELSE "Route " \o Str(route_code)

\* return GO_ROUTES.get(str(route_code), f"Route {route_code}")
get_route_name(route_code) ==
    IF Str(route_code) \in DOMAIN GO_ROUTES
    THEN GO_ROUTES[Str(route_code)]
    ELSE "Route " \o Str(route_code)

InitRoutes ==
    /\ AtRest
    /\ pc = "call"
    /\ \E c \in RouteCodes : last = [op |-> "call", code |-> c]

GetRouteName ==
    /\ pc = "call"
    /\ pc' = "returned"
    /\ last' = [op |-> "returned", code |-> last.code,
                ret |-> get_route_name(last.code)]
    /\ UNCHANGED RestVars

NextRoutes == GetRouteName

SpecRoutes == InitRoutes /\ [][NextRoutes]_vars

\* The code as the string a caller would have typed.
AsTyped(c) == [type |-> "str", int |-> 0, str |-> Str(c)]

\* C28: get_route_name returns the table's name for a code whose text is a
\* key and "Route " followed by the code's text otherwise; an integer code
\* gets the name its decimal string gets (41 and "41" are both
\* "Hamilton / Pickering"), and a result always comes back.
C28_RouteNameTotal ==
    pc = "returned" =>
        /\ Str(last.code) \in DOMAIN GO_ROUTES
               => last.ret = GO_ROUTES[Str(last.code)]
        /\ Str(last.code) \notin DOMAIN GO_ROUTES
               => last.ret = "Route " \o Str(last.code)
        /\ last.ret = get_route_name(AsTyped(last.code))
        /\ (last.code.type = "int" /\ last.code.int = 41)
               => last.ret = "Hamilton / Pickering"
        /\ Len(last.ret) > 0

\* The integer code 41 has been looked up.
C28_Witness ==
    /\ pc = "returned" /\ last.code.type = "int" /\ last.code.int = 41
    /\ last.ret = GO_ROUTES["41"]
====
